---- MODULE Spec2Model ----
(***************************************************************************)
(* The IMAP fetch pipeline of the webmail backend: fetchEmails() and the   *)
(* GET /api/inbox handler of src/backend/server.js, driven by the events   *)
(* of the imap session, the fetch emitter, the message emitters and the    *)
(* body streams.                                                           *)
(*                                                                         *)
(* The imap library is the environment.  Its events are delivered in any   *)
(* order that respects creation (a stream exists after its 'body' event,   *)
(* a message after its 'message' event, the fetch after the fetch command) *)
(* and in which 'end' is the last event of the emitter that emits it.      *)
(* Events of different emitters are not ordered with respect to each other.*)
(***************************************************************************)
EXTENDS Integers, Sequences, FiniteSets, TLC

\* ------------------------------------------------------------------ bounds
\* Largest mailbox total the session reports in the pipeline specification.
MaxBox == 2
\* Largest mailbox total the range computation is applied to.
MaxTotal == 60
\* Largest number of collected records the sort of the fetch 'end' handler is applied to.
MaxLen == 3
\* Largest number of lines the header-fields stream of a message carries.
MaxLines == 2
\* Largest mailbox total the session reports to overlapping invocations.
MaxSharedBox == 1

\* ---------------------------------------------------------------- constants
\* The number of most recent messages the range covers.
WINDOW == 10

VARIABLES
    http,       \* the GET /api/inbox request: "idle", "awaiting", "responded"
    response,   \* what the handler sent
    conn,       \* the imap session: "disconnected", "connecting", "authenticated", "closed", "lost"
    readyL,     \* a once('ready') listener is registered on imap
    errorL,     \* a once('error') listener is registered on imap
    connects,   \* number of imap.connect() calls
    endCalls,   \* number of imap.end() calls
    box,        \* openBox: "none", "opening", "failed", "empty", "opened"
    total,      \* box.messages.total
    range,      \* <<start, end>> of the fetch command, <<>> when none was computed
    fetch,      \* the fetch emitter: "none", "issued", "ended"
    fetchErrL,  \* a once('error') listener is registered on the fetch emitter
    msg,        \* per sequence number: the message emitter
    stream,     \* per sequence number and body part: the body stream and its buffer
    email,      \* per sequence number: the email object of the message handler
    emails,     \* the emails array: references (sequence numbers) to email objects
    settled,    \* the promise: "none", "pending", "resolved", "rejected"
    settleCount,\* number of times the outcome of the promise was set
    partialAbort, \* a fetch error rejected the promise after records had been collected
    client      \* the page: apiAvailable, what its request got, and what renderEmails
                \* was called with last (source "api" or "mock", and the list shown)

vars == <<http, response, conn, readyL, errorL, connects, endCalls, box, total,
          range, fetch, fetchErrL, msg, stream, email, emails, settled,
          settleCount, partialAbort, client>>

sessionVars == <<conn, readyL, errorL, connects>>
boxVars == <<box, total, range>>
msgVars == <<msg, stream, email, emails>>
promiseVars == <<settled, settleCount>>

\* ------------------------------------------------------------------ values
Seqnos == 1..MaxBox
HEADER == "HEADER.FIELDS (FROM TO SUBJECT DATE)"
TEXT == "TEXT"
Which == {HEADER, TEXT}

\* A number of the runtime: NaN or a finite value.
NaN == [nan |-> TRUE, v |-> 0]
Num(n) == [nan |-> FALSE, v |-> n]

Line(n, v) == [name |-> n, value |-> v]
HeaderLines(d) == <<Line("from", "a@example.com"), Line("subject", "Hello"), Line("date", d)>>

\* What the server sends on the header-fields stream of a message: a
\* sequence of chunks, each a sequence of header lines.
HeaderSources ==
    { <<>>,
      <<HeaderLines("2024-01-01")>>,
      << <<Line("from", "a@example.com")>>,
         <<Line("subject", "Hello"), Line("date", "2024-01-02")>> >> }

\* What the server sends on the TEXT stream of a message: chunks of text.
TextSources == { <<"Hel", "lo">> }

Sources(which) == IF which = HEADER THEN HeaderSources ELSE TextSources

NoEmail == [id |-> 0, has |-> {}, from |-> "", subject |-> "", date |-> "", body |-> <<>>]
NoStream == [st |-> "none", buffer |-> <<>>]
NoMsg == [st |-> "none", ended |-> FALSE]
NoResponse == [status |-> 0, records |-> <<>>, error |-> ""]
\* The page before loadInbox has rendered anything.
NoClient == [apiAvailable |-> TRUE, got |-> "none", source |-> "none", shown |-> <<>>]

\* --------------------------------------------------------- range selection
\* The range with the window off by one (total - 10): a variant of ComputeRange
\* that the range property must tell apart from it.
MutComputeRange(t) ==
    LET start == IF t - 10 > 0 THEN t - 10 ELSE 1
    IN  <<start, t>>

ComputeRange(t) ==
    LET start == IF t - 9 > 0 THEN t - 9 ELSE 1
    IN  <<start, t>>

InRange(s) == range # <<>> /\ range[1] <= s /\ s <= range[2]

\* ------------------------------------------------------------------- dates
\* new Date(s).getTime(), in days since the epoch.
ParseDate(s) ==
    CASE s = "2024-01-01" -> Num(19723)
      [] s = "2024-01-02" -> Num(19724)
      [] OTHER -> NaN

\* new Date(e.date): the date attribute may be absent (undefined).
DateOf(e) == IF "date" \in e.has THEN ParseDate(e.date) ELSE NaN

Minus(a, b) == IF a.nan \/ b.nan THEN NaN ELSE Num(a.v - b.v)

\* (a, b) => new Date(b.date) - new Date(a.date)
CompareFn(a, b) == Minus(DateOf(b), DateOf(a))

\* ----------------------------------------------------- Array.prototype.sort
\* The comparator's result as the sort reads it: NaN counts as 0.
SortCompare(h, x, y) ==
    LET v == CompareFn(h[x], h[y]) IN IF v.nan THEN 0 ELSE v.v

ReverseSeq(s) == [i \in 1..Len(s) |-> s[Len(s) + 1 - i]]

RECURSIVE RunLength(_, _, _, _, _)
RunLength(h, a, desc, idx, len) ==
    IF idx > Len(a) THEN len
    ELSE LET order == SortCompare(h, a[idx], a[idx - 1])
         IN  IF (desc /\ order >= 0) \/ (~desc /\ order < 0) THEN len
             ELSE RunLength(h, a, desc, idx + 1, len + 1)

\* The leading run of a (two elements or more), made ascending for the comparator.
CountAndMakeRun(h, a) ==
    LET desc == SortCompare(h, a[2], a[1]) < 0
        len == RunLength(h, a, desc, 3, 2)
        made == IF desc
                THEN ReverseSeq(SubSeq(a, 1, len)) \o SubSeq(a, len + 1, Len(a))
                ELSE a
    IN  [len |-> len, arr |-> made]

RECURSIVE InsertionPoint(_, _, _, _, _)
InsertionPoint(h, a, pivot, left, right) ==
    IF left >= right THEN left
    ELSE LET mid == left + ((right - left) \div 2)
         IN  IF SortCompare(h, pivot, a[mid]) < 0
             THEN InsertionPoint(h, a, pivot, left, mid)
             ELSE InsertionPoint(h, a, pivot, mid + 1, right)

RECURSIVE BinaryInsertionSort(_, _, _)
BinaryInsertionSort(h, a, start) ==
    IF start > Len(a) THEN a
    ELSE LET pivot == a[start]
             left == InsertionPoint(h, a, pivot, 1, start)
             moved == SubSeq(a, 1, left - 1) \o <<pivot>> \o SubSeq(a, left, start - 1)
                      \o SubSeq(a, start + 1, Len(a))
         IN  BinaryInsertionSort(h, moved, start + 1)

\* emails.sort((a, b) => new Date(b.date) - new Date(a.date)) on an array of
\* fewer than 64 elements: one run, extended by binary insertion.
SortEmails(h, a) ==
    IF Len(a) < 2 THEN a
    ELSE LET run == CountAndMakeRun(h, a)
         IN  IF run.len < Len(a) THEN BinaryInsertionSort(h, run.arr, run.len + 1)
             ELSE run.arr

\* ------------------------------------------------------------ header parse
\* Imap.parseHeader(buffer)[name]: the values of the field, in order.
HeaderValues(buffer, name) ==
    LET ls == SelectSeq(buffer, LAMBDA l : l.name = name)
    IN  [i \in 1..Len(ls) |-> ls[i].value]

\* The last value of the field instead of the first: a variant the
\* first-value property must tell apart.
MutFirstOrEmpty(buffer, name) ==
    LET vs == HeaderValues(buffer, name)
    IN  IF Len(vs) = 0 THEN "" ELSE vs[Len(vs)]

\* headers[name]?.[0] || ''
FirstOrEmpty(buffer, name) ==
    LET vs == HeaderValues(buffer, name)
    IN  IF Len(vs) = 0 THEN "" ELSE vs[1]

\* The records of an array of email objects.
Records(h, a) == [i \in 1..Len(a) |-> h[a[i]]]

\* ------------------------------------------------------------------- state
Init ==
    /\ http = "idle"
    /\ response = NoResponse
    /\ conn = "disconnected"
    /\ readyL = FALSE
    /\ errorL = FALSE
    /\ connects = 0
    /\ endCalls = 0
    /\ box = "none"
    /\ total = 0
    /\ range = <<>>
    /\ fetch = "none"
    /\ fetchErrL = FALSE
    /\ msg = [s \in Seqnos |-> NoMsg]
    /\ stream = [s \in Seqnos |-> [w \in Which |-> NoStream]]
    /\ email = [s \in Seqnos |-> NoEmail]
    /\ emails = <<>>
    /\ settled = "none"
    /\ settleCount = 0
    /\ partialAbort = FALSE
    /\ client = NoClient

\* ----------------------------------------------------------------- promise
\* Settle without the promise's guard (a plain callback): every call sets the
\* outcome again.  A variant the settle-once property must tell apart.
MutSettle(kind) ==
    /\ settled' = kind
    /\ settleCount' = settleCount + 1

\* resolve(value) and reject(error) of the promise of fetchEmails: the first
\* call sets the outcome, every later call is ignored.
Settle(kind) ==
    IF settled = "pending"
    THEN /\ settled' = kind
         /\ settleCount' = settleCount + 1
    ELSE UNCHANGED <<settled, settleCount>>

\* imap.end()
ImapEnd ==
    /\ endCalls' = endCalls + 1
    /\ conn' = "closed"

\* ------------------------------------------------------------- fetchEmails
\* app.get('/api/inbox') calls fetchEmails(): the promise executor creates
\* the emails array, registers the two session listeners and connects.
InboxRequest ==
    /\ http = "idle"
    /\ http' = "awaiting"
    /\ emails' = <<>>
    /\ readyL' = TRUE
    /\ errorL' = TRUE
    /\ conn' = "connecting"
    /\ connects' = connects + 1
    /\ settled' = "pending"
    /\ UNCHANGED <<response, endCalls, boxVars, fetch, fetchErrL, msg, stream, email,
                   settleCount, partialAbort, client>>

\* imap 'ready': the once listener opens the mailbox.
ImapReady ==
    /\ conn = "connecting"
    /\ readyL
    /\ readyL' = FALSE
    /\ conn' = "authenticated"
    /\ box' = "opening"
    /\ UNCHANGED <<http, response, errorL, connects, endCalls, total, range, fetch,
                   fetchErrL, msgVars, promiseVars, partialAbort, client>>

\* The openBox callback with an error.
OpenBoxError ==
    /\ box = "opening"
    /\ box' = "failed"
    /\ Settle("rejected")
    /\ UNCHANGED <<http, response, sessionVars, endCalls, total, range, fetch,
                   fetchErrL, msgVars, partialAbort, client>>

\* The openBox callback without the test for an empty mailbox: a variant
\* the step-order property must tell apart.
MutOpenBoxOkAlwaysFetch(t) ==
    /\ box = "opening"
    /\ total' = t
    /\ box' = "opened"
    /\ range' = ComputeRange(t)
    /\ fetch' = "issued"
    /\ fetchErrL' = TRUE
    /\ UNCHANGED <<conn, endCalls, promiseVars>>
    /\ UNCHANGED <<http, response, readyL, errorL, connects, msgVars, partialAbort, client>>

\* The openBox callback without the session end on the empty mailbox: a
\* variant the empty-mailbox property must tell apart.
MutOpenBoxOkNoEnd(t) ==
    /\ box = "opening"
    /\ total' = t
    /\ IF t = 0
       THEN /\ box' = "empty"
            /\ Settle("resolved")
            /\ UNCHANGED <<conn, endCalls, range, fetch, fetchErrL>>
       ELSE /\ box' = "opened"
            /\ range' = ComputeRange(t)
            /\ fetch' = "issued"
            /\ fetchErrL' = TRUE
            /\ UNCHANGED <<conn, endCalls, promiseVars>>
    /\ UNCHANGED <<http, response, readyL, errorL, connects, msgVars, partialAbort, client>>

\* The openBox callback with a mailbox of t messages.
OpenBoxOk(t) ==
    /\ box = "opening"
    /\ total' = t
    /\ IF t = 0
       THEN /\ box' = "empty"
            /\ ImapEnd
            /\ Settle("resolved")
            /\ UNCHANGED <<range, fetch, fetchErrL>>
       ELSE /\ box' = "opened"
            /\ range' = ComputeRange(t)
            /\ fetch' = "issued"
            /\ fetchErrL' = TRUE
            /\ UNCHANGED <<conn, endCalls, promiseVars>>
    /\ UNCHANGED <<http, response, readyL, errorL, connects, msgVars, partialAbort, client>>

\* fetch 'message': the handler creates the email object of the message.
FetchMessage(s) ==
    /\ fetch = "issued"
    /\ InRange(s)
    /\ msg[s].st = "none"
    /\ msg' = [msg EXCEPT ![s].st = "open"]
    /\ email' = [email EXCEPT ![s] = [NoEmail EXCEPT !.id = s]]
    /\ UNCHANGED <<http, response, sessionVars, endCalls, boxVars, fetch, fetchErrL,
                   stream, emails, promiseVars, partialAbort, client>>

\* msg 'body': the handler creates the buffer of the stream.
MsgBody(s, w) ==
    /\ msg[s].st = "open"
    /\ ~msg[s].ended
    /\ stream[s][w].st = "none"
    /\ stream' = [stream EXCEPT ![s][w] = [st |-> "open", buffer |-> <<>>]]
    /\ UNCHANGED <<http, response, sessionVars, endCalls, boxVars, fetch, fetchErrL,
                   msg, email, emails, promiseVars, partialAbort, client>>

\* chunk.toString('utf8') of a chunk of text: every chunk is decoded on its
\* own, so the bytes of a character cut by the chunk boundary ("<C3>" and
\* "<A9>" are the two bytes of one character) each decode to the
\* replacement character "<?>"; any other text decodes to itself.
ChunkToString(chunk) ==
    CASE chunk = "caf<C3>" -> "caf<?>"
      [] chunk = "<A9>s" -> "<?>s"
      [] OTHER -> chunk

\* stream 'data' listener: buffer += chunk.toString('utf8').  A chunk of text
\* is one element of the buffer, a chunk of header lines is its lines.
OnData(w, buffer, chunk) ==
    IF w = TEXT THEN Append(buffer, ChunkToString(chunk)) ELSE buffer \o chunk

RECURSIVE Deliver(_, _, _)
Deliver(w, buffer, chunks) ==
    IF chunks = <<>> THEN buffer
    ELSE Deliver(w, OnData(w, buffer, Head(chunks)), Tail(chunks))

\* stream 'end' listener: the body goes to email.body, the header fields are
\* parsed into email.from, email.subject and email.date.
OnStreamEnd(w, e, buffer) ==
    IF w = TEXT
    THEN [e EXCEPT !.body = buffer, !.has = @ \cup {"body"}]
    ELSE [e EXCEPT !.from = FirstOrEmpty(buffer, "from"),
                   !.subject = FirstOrEmpty(buffer, "subject"),
                   !.date = FirstOrEmpty(buffer, "date"),
                   !.has = @ \cup {"from", "subject", "date"}]

\* The stream delivers its chunks in order and ends.  The buffer belongs to
\* the closure of this one stream and no other handler reads it, so the
\* 'data' events are taken together with the 'end' event that follows them.
StreamFlow(s, w, src) ==
    /\ stream[s][w].st = "open"
    /\ LET buffer == Deliver(w, stream[s][w].buffer, src)
       IN  /\ stream' = [stream EXCEPT ![s][w] = [st |-> "ended", buffer |-> buffer]]
           /\ email' = [email EXCEPT ![s] = OnStreamEnd(w, @, buffer)]
    /\ UNCHANGED <<http, response, sessionVars, endCalls, boxVars, fetch, fetchErrL,
                   msg, emails, promiseVars, partialAbort, client>>

\* msg 'end': emails.push(email)
MsgEnd(s) ==
    /\ msg[s].st = "open"
    /\ ~msg[s].ended
    /\ msg' = [msg EXCEPT ![s].ended = TRUE]
    /\ emails' = Append(emails, s)
    /\ UNCHANGED <<http, response, sessionVars, endCalls, boxVars, fetch, fetchErrL,
                   stream, email, promiseVars, partialAbort, client>>

\* fetch 'error' handled by resolving with what was collected so far: a
\* variant the no-partial-result property must tell apart from FetchError.
MutFetchError ==
    /\ fetch = "issued"
    /\ fetchErrL
    /\ fetchErrL' = FALSE
    /\ partialAbort' = (settled = "pending" /\ Len(emails) > 0)
    /\ Settle("resolved")
    /\ UNCHANGED <<http, response, sessionVars, endCalls, boxVars, fetch, msgVars, client>>

\* fetch 'error': reject
FetchError ==
    /\ fetch = "issued"
    /\ fetchErrL
    /\ fetchErrL' = FALSE
    /\ partialAbort' = (settled = "pending" /\ Len(emails) > 0)
    /\ Settle("rejected")
    /\ UNCHANGED <<http, response, sessionVars, endCalls, boxVars, fetch, msgVars, client>>

\* fetch 'end' without the sort: a variant the success-path property must
\* tell apart.
MutFetchEndUnsorted ==
    /\ fetch = "issued"
    /\ fetch' = "ended"
    /\ emails' = emails
    /\ ImapEnd
    /\ Settle("resolved")
    /\ UNCHANGED <<http, response, readyL, errorL, connects, boxVars, fetchErrL,
                   msg, stream, email, partialAbort, client>>

\* fetch 'end': sort the array, end the session, resolve with the array.
FetchEnd ==
    /\ fetch = "issued"
    /\ fetch' = "ended"
    /\ emails' = SortEmails(email, emails)
    /\ ImapEnd
    /\ Settle("resolved")
    /\ UNCHANGED <<http, response, readyL, errorL, connects, boxVars, fetchErrL,
                   msg, stream, email, partialAbort, client>>

\* imap 'error': reject
SessionError ==
    /\ conn \in {"connecting", "authenticated"}
    /\ errorL
    /\ errorL' = FALSE
    /\ Settle("rejected")
    /\ UNCHANGED <<http, response, conn, readyL, connects, endCalls, boxVars, fetch,
                   fetchErrL, msgVars, partialAbort, client>>

\* ---------------------------------------------------------- GET /api/inbox
\* The handler answering a rejection with an empty array instead of status
\* 500: a variant the answer property must tell apart.
MutInboxRespond ==
    /\ http = "awaiting"
    /\ settled \in {"resolved", "rejected"}
    /\ http' = "responded"
    /\ response' = IF settled = "resolved"
                   THEN [status |-> 200, records |-> Records(email, emails), error |-> ""]
                   ELSE [status |-> 200, records |-> <<>>, error |-> ""]
    /\ UNCHANGED <<sessionVars, endCalls, boxVars, fetch, fetchErrL, msgVars,
                   promiseVars, partialAbort, client>>

\* The handler resumes after await: res.json(emails) with the array as it is
\* now, or status 500 with the error object.
InboxRespond ==
    /\ http = "awaiting"
    /\ settled \in {"resolved", "rejected"}
    /\ http' = "responded"
    /\ response' = IF settled = "resolved"
                   THEN [status |-> 200, records |-> Records(email, emails), error |-> ""]
                   ELSE [status |-> 500, records |-> <<>>, error |-> "Failed to fetch emails"]
    /\ UNCHANGED <<sessionVars, endCalls, boxVars, fetch, fetchErrL, msgVars,
                   promiseVars, partialAbort, client>>

Next ==
    \/ InboxRequest
    \/ ImapReady
    \/ OpenBoxError
    \/ \E t \in 0..MaxBox : OpenBoxOk(t)
    \/ \E s \in Seqnos : FetchMessage(s)
    \/ \E s \in Seqnos, w \in Which : MsgBody(s, w)
    \/ \E s \in Seqnos, w \in Which : \E src \in Sources(w) : StreamFlow(s, w, src)
    \/ \E s \in Seqnos : MsgEnd(s)
    \/ FetchError
    \/ FetchEnd
    \/ SessionError
    \/ InboxRespond

Spec == Init /\ [][Next]_vars

\* --------------------------------------------------------- range selection
\* The state in which the session is ready and openBox is about to call back,
\* for every mailbox total up to MaxTotal.
InitRange ==
    /\ http = "awaiting"
    /\ response = NoResponse
    /\ conn = "authenticated"
    /\ readyL = FALSE
    /\ errorL = TRUE
    /\ connects = 1
    /\ endCalls = 0
    /\ box = "opening"
    /\ total \in 0..MaxTotal
    /\ range = <<>>
    /\ fetch = "none"
    /\ fetchErrL = FALSE
    /\ msg = [s \in Seqnos |-> NoMsg]
    /\ stream = [s \in Seqnos |-> [w \in Which |-> NoStream]]
    /\ email = [s \in Seqnos |-> NoEmail]
    /\ emails = <<>>
    /\ settled = "pending"
    /\ settleCount = 0
    /\ partialAbort = FALSE
    /\ client = NoClient

NextRange == OpenBoxOk(total)

SpecRange == InitRange /\ [][NextRange]_vars

\* ------------------------------------------------------------ sort at 'end'
\* What the header-fields stream of a collected message did: it never came
\* ("none"), or it ended with this value of the Date field.
DateKinds == {"none", "", "2024-01-01", "2024-01-02"}

Collected(s, k) ==
    IF k = "none"
    THEN [id |-> s, has |-> {"body"}, from |-> "", subject |-> "", date |-> "",
          body |-> <<"Hel", "lo">>]
    ELSE [id |-> s, has |-> {"from", "subject", "date", "body"}, from |-> "a@example.com",
          subject |-> "Hello", date |-> k, body |-> <<"Hel", "lo">>]

Perms(n) == { p \in [1..n -> 1..n] : \A i, j \in 1..n : p[i] = p[j] => i = j }

\* The states in which every message of the range has ended its streams and
\* has been pushed, in any order, and the fetch 'end' event is about to come.
InitSort ==
    \E n \in 1..MaxLen : \E kinds \in [1..n -> DateKinds] : \E arrival \in Perms(n) :
        /\ http = "awaiting"
        /\ response = NoResponse
        /\ conn = "authenticated"
        /\ readyL = FALSE
        /\ errorL = TRUE
        /\ connects = 1
        /\ endCalls = 0
        /\ box = "opened"
        /\ total = n
        /\ range = ComputeRange(n)
        /\ fetch = "issued"
        /\ fetchErrL = TRUE
        /\ msg = [s \in 1..n |-> [st |-> "open", ended |-> TRUE]]
        /\ stream = [s \in 1..n |-> [w \in Which |->
                        IF w = HEADER /\ kinds[s] = "none" THEN NoStream
                        ELSE [st |-> "ended",
                              buffer |-> IF w = TEXT THEN <<"Hel", "lo">>
                                         ELSE IF kinds[s] = "" THEN <<>>
                                         ELSE HeaderLines(kinds[s])]]]
        /\ email = [s \in 1..n |-> Collected(s, kinds[s])]
        /\ emails = arrival
        /\ settled = "pending"
        /\ settleCount = 0
        /\ partialAbort = FALSE
        /\ client = NoClient
    /\ client = NoClient

NextSort == FetchEnd

SpecSort == InitSort /\ [][NextSort]_vars

\* ---------------------------------------------------- the page: loadInbox
\* mockInbox: two records, dated now and one day earlier.
MockInbox ==
    << [id |-> 1, has |-> {"from", "subject", "date", "body"}, from |-> "support@company.com",
        subject |-> "Welcome to our service!", date |-> "2024-01-02", body |-> <<"Thank you">>],
       [id |-> 2, has |-> {"from", "subject", "date", "body"}, from |-> "newsletter@company.com",
        subject |-> "Weekly Newsletter", date |-> "2024-01-01", body |-> <<"Check out">>] >>

\* The sort of the page with the comparator the other way round (oldest
\* first): a variant the second-sort property must tell apart.
MutClientSort(recs) ==
    LET order == SortEmails(recs, [i \in 1..Len(recs) |-> i])
    IN  ReverseSeq([i \in 1..Len(recs) |-> recs[order[i]]])

\* emails.sort((a, b) => new Date(b.date) - new Date(a.date)) on the parsed
\* response: the records themselves are the array elements.  A key the
\* server left undefined is absent from the JSON text and so from the record.
ClientSort(recs) ==
    LET order == SortEmails(recs, [i \in 1..Len(recs) |-> i])
    IN  [i \in 1..Len(recs) |-> recs[order[i]]]

\* renderEmails(emails) throws on email.body.substring(0, 100) when a record
\* has no body.
RenderThrows(recs) == \E i \in 1..Len(recs) : "body" \notin recs[i].has

\* loadInbox() once the response has arrived: an answer that is not ok sets
\* apiAvailable to false and throws; an ok answer is parsed, sorted and
\* rendered; whatever is thrown on the way, by renderEmails too, is caught
\* and mockInbox is rendered.
LoadInbox ==
    /\ http = "responded"
    /\ client.source = "none"
    /\ client' = IF response.status # 200
                 THEN [apiAvailable |-> FALSE, got |-> "notok", source |-> "mock",
                       shown |-> MockInbox]
                 ELSE IF RenderThrows(ClientSort(response.records))
                 THEN [client EXCEPT !.got = "ok", !.source = "mock", !.shown = MockInbox]
                 ELSE [client EXCEPT !.got = "ok", !.source = "api",
                                     !.shown = ClientSort(response.records)]
    /\ UNCHANGED <<http, response, sessionVars, endCalls, boxVars, fetch, fetchErrL,
                   msgVars, promiseVars, partialAbort>>

\* loadInbox() when the request fails on the network or the answer cannot be
\* parsed: fetch() or response.json() rejects, the catch renders mockInbox.
LoadInboxFailed ==
    /\ client.source = "none"
    /\ client' = [client EXCEPT !.got = "failed", !.source = "mock", !.shown = MockInbox]
    /\ UNCHANGED <<http, response, sessionVars, endCalls, boxVars, fetch, fetchErrL,
                   msgVars, promiseVars, partialAbort>>

\* The collected messages are sorted and resolved, the handler answers, the
\* page sorts again and renders.
NextClient ==
    \/ FetchEnd
    \/ InboxRespond
    \/ LoadInbox

SpecClient == InitSort /\ [][NextClient]_vars

\* The pipeline together with the page that sent the request.
NextPage ==
    \/ Next
    \/ LoadInbox
    \/ LoadInboxFailed

SpecPage == Init /\ [][NextPage]_vars

\* ------------------------------------------------ header fields of a message
\* The lines the server may send for 'HEADER.FIELDS (FROM TO SUBJECT DATE)':
\* any of the four fields, with an empty value or one of two values.
FieldLines ==
    { Line(n, v) : n \in {"from", "to", "subject", "date"}, v \in {"", "x", "y"} }

RECURSIVE SeqsUpTo(_, _)
SeqsUpTo(S, n) ==
    IF n = 0 THEN { <<>> }
    ELSE LET shorter == SeqsUpTo(S, n - 1)
         IN  shorter \cup { Append(q, x) : q \in shorter, x \in S }

\* What the header-fields stream delivers: no 'data' event at all, or one
\* chunk that holds up to MaxLines lines, fields missing or repeated.
HeaderVariants == { <<>> } \cup { <<ls>> : ls \in SeqsUpTo(FieldLines, MaxLines) }

\* A mailbox of one message whose 'message' event has been handled.
InitHeader ==
    /\ http = "awaiting"
    /\ response = NoResponse
    /\ conn = "authenticated"
    /\ readyL = FALSE
    /\ errorL = TRUE
    /\ connects = 1
    /\ endCalls = 0
    /\ box = "opened"
    /\ total = 1
    /\ range = ComputeRange(1)
    /\ fetch = "issued"
    /\ fetchErrL = TRUE
    /\ msg = [s \in Seqnos |-> IF s = 1 THEN [st |-> "open", ended |-> FALSE] ELSE NoMsg]
    /\ stream = [s \in Seqnos |-> [w \in Which |-> NoStream]]
    /\ email = [s \in Seqnos |-> IF s = 1 THEN [NoEmail EXCEPT !.id = 1] ELSE NoEmail]
    /\ emails = <<>>
    /\ settled = "pending"
    /\ settleCount = 0
    /\ partialAbort = FALSE
    /\ client = NoClient

NextHeader ==
    \/ \E w \in Which : MsgBody(1, w)
    \/ \E src \in HeaderVariants : StreamFlow(1, HEADER, src)
    \/ \E src \in TextSources : StreamFlow(1, TEXT, src)
    \/ MsgEnd(1)
    \/ FetchEnd
    \/ InboxRespond

SpecHeader == InitHeader /\ [][NextHeader]_vars

\* ------------------------------------------------------ chunks of the streams
\* The texts a TEXT stream may carry, in chunks; the second is cut inside a
\* character of two bytes.
ChunkTextSources == { <<"Hel", "lo">>, <<"caf<C3>", "<A9>s">> }

ChunkSources(w) == IF w = HEADER THEN HeaderSources ELSE ChunkTextSources

\* Every message of the range has had its 'message' event; no body yet.
\* Here a stream also holds what the server sends on it (src) and how many
\* chunks of it were delivered (sent).
InitChunks ==
    /\ http = "awaiting"
    /\ response = NoResponse
    /\ conn = "authenticated"
    /\ readyL = FALSE
    /\ errorL = TRUE
    /\ connects = 1
    /\ endCalls = 0
    /\ box = "opened"
    /\ total = MaxBox
    /\ range = ComputeRange(MaxBox)
    /\ fetch = "issued"
    /\ fetchErrL = TRUE
    /\ msg = [s \in Seqnos |-> [st |-> "open", ended |-> FALSE]]
    /\ stream = [s \in Seqnos |-> [w \in Which |->
                    [st |-> "none", buffer |-> <<>>, src |-> <<>>, sent |-> 0]]]
    /\ email = [s \in Seqnos |-> [NoEmail EXCEPT !.id = s]]
    /\ emails = <<>>
    /\ settled = "pending"
    /\ settleCount = 0
    /\ partialAbort = FALSE
    /\ client = NoClient

chunkFrame == <<http, response, sessionVars, endCalls, boxVars, fetch, fetchErrL, msg,
                emails, promiseVars, partialAbort, client>>

\* msg 'body': the handler creates the buffer of the stream.
ChunkBody(s, w, src) ==
    /\ msg[s].st = "open"
    /\ ~msg[s].ended
    /\ stream[s][w].st = "none"
    /\ stream' = [stream EXCEPT ![s][w] =
                      [st |-> "open", buffer |-> <<>>, src |-> src, sent |-> 0]]
    /\ UNCHANGED <<email, chunkFrame>>

\* stream 'data' with one buffer for the same part of every message: a
\* variant the reassembly property must tell apart.
MutStreamData(s, w) ==
    /\ stream[s][w].st = "open"
    /\ stream[s][w].sent < Len(stream[s][w].src)
    /\ LET chunk == stream[s][w].src[stream[s][w].sent + 1] IN
       stream' = [t \in Seqnos |-> [v \in Which |->
                     IF v # w THEN stream[t][v]
                     ELSE [stream[t][v] EXCEPT
                              !.buffer = OnData(w, @, chunk),
                              !.sent = IF t = s THEN @ + 1 ELSE @]]]
    /\ UNCHANGED <<email, chunkFrame>>

\* stream 'data': the next chunk of the stream goes to the buffer of the
\* closure of this stream.
StreamData(s, w) ==
    /\ stream[s][w].st = "open"
    /\ stream[s][w].sent < Len(stream[s][w].src)
    /\ stream' = [stream EXCEPT
                      ![s][w].buffer = OnData(w, @, stream[s][w].src[stream[s][w].sent + 1]),
                      ![s][w].sent = @ + 1]
    /\ UNCHANGED <<email, chunkFrame>>

\* stream 'end', after the last chunk.
StreamEnd(s, w) ==
    /\ stream[s][w].st = "open"
    /\ stream[s][w].sent = Len(stream[s][w].src)
    /\ stream' = [stream EXCEPT ![s][w].st = "ended"]
    /\ email' = [email EXCEPT ![s] = OnStreamEnd(w, @, stream[s][w].buffer)]
    /\ UNCHANGED chunkFrame

NextChunks ==
    \/ \E s \in Seqnos, w \in Which : \E src \in ChunkSources(w) : ChunkBody(s, w, src)
    \/ \E s \in Seqnos, w \in Which : StreamData(s, w)
    \/ \E s \in Seqnos, w \in Which : StreamEnd(s, w)

SpecChunks == InitChunks /\ [][NextChunks]_vars

\* ------------------------------------------------------- a session that stops
\* The connection is closed or goes silent without an 'error' event: the
\* session emits 'close' and 'end', for which fetchEmails registers no
\* listener, and the library emits nothing for this session afterwards.
ImapClose ==
    /\ conn \in {"connecting", "authenticated"}
    /\ conn' = "lost"
    /\ UNCHANGED <<http, response, readyL, errorL, connects, endCalls, boxVars, fetch,
                   fetchErrL, msgVars, promiseVars, partialAbort, client>>

Alive == conn # "lost"

NextClose ==
    \/ InboxRequest
    \/ Alive /\ ImapReady
    \/ Alive /\ OpenBoxError
    \/ Alive /\ \E t \in 0..MaxBox : OpenBoxOk(t)
    \/ Alive /\ \E s \in Seqnos : FetchMessage(s)
    \/ Alive /\ \E s \in Seqnos, w \in Which : MsgBody(s, w)
    \/ Alive /\ \E s \in Seqnos, w \in Which : \E src \in Sources(w) : StreamFlow(s, w, src)
    \/ Alive /\ \E s \in Seqnos : MsgEnd(s)
    \/ Alive /\ FetchError
    \/ Alive /\ FetchEnd
    \/ SessionError
    \/ ImapClose
    \/ InboxRespond

\* Whatever can happen does happen: the server sends what it has to send
\* until the session has stopped, and the handler resumes when the promise
\* has settled.
SpecClose == Init /\ [][NextClose]_vars /\ WF_vars(NextClose)

\* ------------------------------------------------- overlapping invocations
\* Two invocations of fetchEmails() on the one imap object of the module.
\* Here the variables of an invocation (settled, box, total, range, fetch,
\* fetchErrL, msg, email, emails) hold one value per invocation, readyL and
\* errorL are the sets of invocations whose once listener is registered on
\* imap, and conn, connects and endCalls are those of the shared object.
\* The body streams are left out: no record gets a date.
Calls == {"first", "second"}
SharedSeqnos == 1..MaxSharedBox

\* The email objects, by the fetch that delivered the message and its number.
Refs == Calls \X SharedSeqnos

sharedIdle == <<http, response, stream, settleCount, partialAbort, client>>

InitShared ==
    /\ http = "idle"
    /\ response = NoResponse
    /\ conn = "disconnected"
    /\ readyL = {}
    /\ errorL = {}
    /\ connects = 0
    /\ endCalls = 0
    /\ box = [c \in Calls |-> "none"]
    /\ total = [c \in Calls |-> 0]
    /\ range = [c \in Calls |-> <<>>]
    /\ fetch = [c \in Calls |-> "none"]
    /\ fetchErrL = [c \in Calls |-> FALSE]
    /\ msg = [c \in Calls |-> [s \in SharedSeqnos |-> NoMsg]]
    /\ stream = <<>>
    /\ email = [r \in Refs |-> NoEmail]
    /\ emails = [c \in Calls |-> <<>>]
    /\ settled = [c \in Calls |-> "none"]
    /\ settleCount = 0
    /\ partialAbort = FALSE
    /\ client = NoClient

\* resolve / reject of the promise of invocation c, on the outcomes st.
SettleOf(st, c, kind) == IF st[c] = "pending" THEN [st EXCEPT ![c] = kind] ELSE st

\* fetchEmails(): a new promise and emails array, imap.once('ready'),
\* imap.once('error'), imap.connect() on the shared object.
FetchEmailsCall(c) ==
    /\ settled[c] = "none"
    /\ settled' = [settled EXCEPT ![c] = "pending"]
    /\ emails' = [emails EXCEPT ![c] = <<>>]
    /\ readyL' = readyL \cup {c}
    /\ errorL' = errorL \cup {c}
    /\ conn' = "connecting"
    /\ connects' = connects + 1
    /\ UNCHANGED <<endCalls, boxVars, fetch, fetchErrL, msg, email, sharedIdle>>

\* imap 'ready': every registered once listener runs and calls openBox.
SharedReady ==
    /\ conn = "connecting"
    /\ readyL # {}
    /\ readyL' = {}
    /\ conn' = "authenticated"
    /\ box' = [c \in Calls |-> IF c \in readyL THEN "opening" ELSE box[c]]
    /\ UNCHANGED <<errorL, connects, endCalls, total, range, fetch, fetchErrL, msg,
                   email, emails, settled, sharedIdle>>

\* imap 'error': every registered once listener rejects its promise.
SharedError ==
    /\ conn \in {"connecting", "authenticated"}
    /\ errorL # {}
    /\ errorL' = {}
    /\ settled' = [c \in Calls |-> IF c \in errorL THEN SettleOf(settled, c, "rejected")[c]
                                    ELSE settled[c]]
    /\ UNCHANGED <<conn, readyL, connects, endCalls, boxVars, fetch, fetchErrL, msg,
                   email, emails, sharedIdle>>

\* The openBox callback of invocation c with an error.
SharedOpenBoxError(c) ==
    /\ box[c] = "opening"
    /\ box' = [box EXCEPT ![c] = "failed"]
    /\ settled' = SettleOf(settled, c, "rejected")
    /\ UNCHANGED <<sessionVars, endCalls, total, range, fetch, fetchErrL, msg, email,
                   emails, sharedIdle>>

\* The openBox callback of invocation c with a mailbox of t messages.
SharedOpenBoxOk(c, t) ==
    /\ box[c] = "opening"
    /\ total' = [total EXCEPT ![c] = t]
    /\ IF t = 0
       THEN /\ box' = [box EXCEPT ![c] = "empty"]
            /\ ImapEnd
            /\ settled' = SettleOf(settled, c, "resolved")
            /\ UNCHANGED <<range, fetch, fetchErrL>>
       ELSE /\ box' = [box EXCEPT ![c] = "opened"]
            /\ range' = [range EXCEPT ![c] = ComputeRange(t)]
            /\ fetch' = [fetch EXCEPT ![c] = "issued"]
            /\ fetchErrL' = [fetchErrL EXCEPT ![c] = TRUE]
            /\ UNCHANGED <<conn, endCalls, settled>>
    /\ UNCHANGED <<readyL, errorL, connects, msg, email, emails, sharedIdle>>

\* 'message' of the fetch of invocation c: the handler creates the email
\* object of the message.
SharedFetchMessage(c, s) ==
    /\ fetch[c] = "issued"
    /\ range[c][1] <= s /\ s <= range[c][2]
    /\ msg[c][s].st = "none"
    /\ msg' = [msg EXCEPT ![c][s].st = "open"]
    /\ email' = [email EXCEPT ![<<c, s>>] = [NoEmail EXCEPT !.id = s]]
    /\ UNCHANGED <<sessionVars, endCalls, boxVars, fetch, fetchErrL, emails, settled,
                   sharedIdle>>

\* The msg 'end' listener pushing to one array shared by the invocations: a
\* variant the private-records property must tell apart.
MutSharedMsgEnd(c, s) ==
    /\ msg[c][s].st = "open"
    /\ ~msg[c][s].ended
    /\ msg' = [msg EXCEPT ![c][s].ended = TRUE]
    /\ emails' = [d \in Calls |-> Append(emails[d], <<c, s>>)]
    /\ UNCHANGED <<sessionVars, endCalls, boxVars, fetch, fetchErrL, email, settled,
                   sharedIdle>>

\* msg 'end' of a message of the fetch of invocation c: emails.push(email)
\* on the array of the closure the handler was created in.
SharedMsgEnd(c, s) ==
    /\ msg[c][s].st = "open"
    /\ ~msg[c][s].ended
    /\ msg' = [msg EXCEPT ![c][s].ended = TRUE]
    /\ emails' = [emails EXCEPT ![c] = Append(@, <<c, s>>)]
    /\ UNCHANGED <<sessionVars, endCalls, boxVars, fetch, fetchErrL, email, settled,
                   sharedIdle>>

\* 'error' of the fetch of invocation c: reject
SharedFetchError(c) ==
    /\ fetch[c] = "issued"
    /\ fetchErrL[c]
    /\ fetchErrL' = [fetchErrL EXCEPT ![c] = FALSE]
    /\ settled' = SettleOf(settled, c, "rejected")
    /\ UNCHANGED <<sessionVars, endCalls, boxVars, fetch, msg, email, emails, sharedIdle>>

\* 'end' of the fetch of invocation c: sort, imap.end(), resolve.
SharedFetchEnd(c) ==
    /\ fetch[c] = "issued"
    /\ fetch' = [fetch EXCEPT ![c] = "ended"]
    /\ emails' = [emails EXCEPT ![c] = SortEmails(email, @)]
    /\ ImapEnd
    /\ settled' = SettleOf(settled, c, "resolved")
    /\ UNCHANGED <<readyL, errorL, connects, boxVars, fetchErrL, msg, email, sharedIdle>>

NextShared ==
    \/ \E c \in Calls : FetchEmailsCall(c)
    \/ SharedReady
    \/ SharedError
    \/ \E c \in Calls : SharedOpenBoxError(c)
    \/ \E c \in Calls, t \in 0..MaxSharedBox : SharedOpenBoxOk(c, t)
    \/ \E c \in Calls, s \in SharedSeqnos : SharedFetchMessage(c, s)
    \/ \E c \in Calls, s \in SharedSeqnos : SharedMsgEnd(c, s)
    \/ \E c \in Calls : SharedFetchError(c)
    \/ \E c \in Calls : SharedFetchEnd(c)

SpecShared == InitShared /\ [][NextShared]_vars

\* ================================================================== claims
Max(a, b) == IF a >= b THEN a ELSE b
Min(a, b) == IF a <= b THEN a ELSE b

Settled == settled \in {"resolved", "rejected"}

\* The step in which the promise becomes resolved: the array handed to
\* resolve is emails' and its records are those of email'.
Resolves == settled = "pending" /\ settled' = "resolved"

Valid(e) == ~DateOf(e).nan

\* C1: once openBox has called back without error, no range was computed iff
\* total = 0; otherwise the range ends at total, starts at
\* max(1, total - WINDOW + 1), holds min(total, WINDOW) sequence numbers, and
\* 1 <= start <= end.
RangeSelection ==
    box \in {"empty", "opened"} =>
        /\ (range = <<>>) <=> (total = 0)
        /\ total > 0 =>
              /\ range[2] = total
              /\ range[1] = Max(1, total - WINDOW + 1)
              /\ range[2] - range[1] + 1 = Min(total, WINDOW)
              /\ range[1] >= 1
              /\ range[1] <= range[2]

\* C1 witness: a mailbox of 25 messages, for which 16:25 is fetched.
RangeSelectionWitness ==
    box = "opened" /\ total = 25 /\ range = <<16, 25>>

\* C2: the outcome of the promise of an invocation is set at most once, so it
\* is never both resolved and rejected, whatever events follow.
SettledAtMostOnce ==
    /\ settleCount <= 1
    /\ Settled <=> settleCount = 1

\* C2 witness: the session error, the fetch error and the fetch end have all
\* called reject or resolve on the same promise.
SettledAtMostOnceWitness ==
    /\ settled = "rejected"
    /\ fetch = "ended"
    /\ ~errorL
    /\ ~fetchErrL

\* C3: whenever the invocation has settled, imap.end() has been called
\* exactly once.
ClosedOnceOnEveryExit == Settled => endCalls = 1

\* C4: once the fetch has emitted 'error', the invocation is rejected, its
\* outcome was set once, and what the caller of GET /api/inbox receives is
\* the failure with no record, also after the fetch 'end' event.
FetchErrorRejectsAll ==
    (fetch # "none" /\ ~fetchErrL) =>
        /\ settled = "rejected"
        /\ settleCount = 1
        /\ http = "responded" => response.status = 500 /\ response.records = <<>>

\* C4 witness: the fetch error came after records had been collected, the
\* fetch 'end' came after it, and the handler has answered.
FetchErrorRejectsAllWitness ==
    /\ partialAbort
    /\ Len(emails) > 0
    /\ fetch = "ended"
    /\ http = "responded"

\* C5: the list the invocation resolves with has as many records as the
\* computed range has sequence numbers, min(total, WINDOW): none when the
\* mailbox is empty.
ResolvesWithWholeRange ==
    [][Resolves => Len(emails') = Min(total', WINDOW)]_vars

\* C6: at the moment of resolution both streams of every record of the list
\* have ended, and no record is added to the list while one of its streams
\* is still open.
ResolvesOnlyFinalized ==
    [][/\ Resolves => \A i \in 1..Len(emails') : \A w \in Which :
                         stream'[emails'[i]][w].st = "ended"
       /\ \A s \in DOMAIN msg : (~msg[s].ended /\ msg'[s].ended) =>
              \A w \in Which : stream[s][w].st # "open"]_vars

\* C7: the resolved list is sorted by date descending: no record with a
\* valid date stands before a record with a newer valid date (for adjacent
\* records: the earlier one is not older than the later one).
SortedByDateDescending ==
    fetch = "ended" =>
        \A i, j \in 1..Len(emails) :
            (i < j /\ Valid(email[emails[i]]) /\ Valid(email[emails[j]])) =>
                DateOf(email[emails[i]]).v >= DateOf(email[emails[j]]).v

\* The array with its references in the order of the sequence numbers.
RECURSIVE ById(_)
ById(a) ==
    IF a = <<>> THEN <<>>
    ELSE LET m == CHOOSE i \in 1..Len(a) : \A j \in 1..Len(a) : a[i] <= a[j]
         IN  <<a[m]>> \o ById(SubSeq(a, 1, m - 1) \o SubSeq(a, m + 1, Len(a)))

\* C8: the resolved list does not depend on the order in which the messages
\* completed: when every message of the list has ended both streams with a
\* valid date, the list is the one the same messages give when they complete
\* in the order of their sequence numbers.
SameListInAnyOrder ==
    [][(/\ Resolves
        /\ \A i \in 1..Len(emails') :
              /\ \A w \in Which : stream'[emails'[i]][w].st = "ended"
              /\ Valid(email'[emails'[i]]))
          => emails' = SortEmails(email', ById(emails'))]_vars

\* C9: in the resolved list every record with an invalid date (an empty or
\* unparseable Date, or none) stands after every record with a valid date.
InvalidDatesLast ==
    fetch = "ended" =>
        \A i, j \in 1..Len(emails) :
            (~Valid(email[emails[i]]) /\ Valid(email[emails[j]])) => j < i

\* C10: a record whose header-fields stream never came and whose TEXT stream
\* ended is resolved with from and subject present and empty, and stands
\* after every record with a valid date.
NoHeaderDefaults ==
    [][Resolves =>
          \A i \in 1..Len(emails') :
              LET s == emails'[i] IN
              (stream'[s][HEADER].st = "none" /\ stream'[s][TEXT].st = "ended") =>
                  /\ {"from", "subject"} \subseteq email'[s].has
                  /\ email'[s].from = ""
                  /\ email'[s].subject = ""
                  /\ \A j \in 1..Len(emails') : Valid(email'[emails'[j]]) => j < i]_vars

\* C11: once the header-fields stream of a message has ended, each of from,
\* subject and date is present in the record and holds the value of the first
\* line of that field in what the stream delivered, or the empty string when
\* the stream delivered no such line (or nothing at all); the invocation is
\* not rejected by it.
HeaderFieldDefaults ==
    \A s \in Seqnos :
        stream[s][HEADER].st = "ended" =>
            LET b == stream[s][HEADER].buffer IN
            /\ settled # "rejected"
            /\ \A n \in {"from", "subject", "date"} :
                  LET at == { i \in 1..Len(b) : b[i].name = n } IN
                  /\ n \in email[s].has
                  /\ email[s][n] = IF at = {} THEN ""
                                   ELSE b[CHOOSE i \in at : \A j \in at : i <= j].value

\* C11 witness: the stream carried two From lines and no Date line.
HeaderFieldDefaultsWitness ==
    /\ stream[1][HEADER].st = "ended"
    /\ stream[1][HEADER].buffer = <<Line("from", "x"), Line("from", "y")>>
    /\ email[1].from = "x"
    /\ email[1].date = ""

\* C12: every record of the resolved list whose streams are not still open
\* has all of from, subject, date and body present, also when the server
\* sent no header-fields stream or no TEXT stream for the message.
RecordsComplete ==
    [][Resolves =>
          \A i \in 1..Len(emails') :
              LET s == emails'[i] IN
              (\A w \in Which : stream'[s][w].st # "open") =>
                  /\ email'[s].id = s
                  /\ email'[s].has = {"from", "subject", "date", "body"}]_vars

\* C13: when openBox has reported a total of 0, no range was computed, no
\* fetch command was issued and no message handled, imap.end() was called
\* once and the session is closed; the invocation is resolved (unless a
\* session error had rejected it before the callback), and what it resolves
\* with and the handler answers is the empty list.
EmptyMailboxShortcut ==
    box = "empty" =>
        /\ total = 0
        /\ range = <<>>
        /\ fetch = "none"
        /\ ~fetchErrL
        /\ \A s \in Seqnos : msg[s].st = "none"
        /\ emails = <<>>
        /\ endCalls = 1
        /\ conn = "closed"
        /\ errorL => settled = "resolved"
        /\ (http = "responded" /\ settled = "resolved") =>
               response = [status |-> 200, records |-> <<>>, error |-> ""]

\* C13 witness: the mailbox was empty and the handler has answered with the
\* empty list.
EmptyMailboxShortcutWitness ==
    /\ box = "empty"
    /\ settled = "resolved"
    /\ http = "responded"
    /\ response.records = <<>>
    /\ endCalls = 1

\* C14: a pending invocation eventually settles in every execution in which
\* the server sends what it has to send until it stops, also when the
\* connection is closed without an 'error' event.
EventuallySettles == (settled = "pending") ~> Settled

\* The step is a call of imap.end() made for invocation c.
EndsFor(c) ==
    /\ endCalls' = endCalls + 1
    /\ \/ box[c] = "opening" /\ box'[c] = "empty"
       \/ fetch[c] = "issued" /\ fetch'[c] = "ended"

\* C15: with two invocations, a 'ready' event opens the mailbox for at most
\* one of them, and the imap.end() made for one invocation never closes the
\* session while the other invocation is still pending.
ConnectionIsolation ==
    [][/\ Cardinality({ c \in Calls : box[c] = "none" /\ box'[c] = "opening" }) <= 1
       /\ \A c \in Calls : EndsFor(c) =>
              \A d \in Calls \ {c} : settled[d] # "pending"]_vars

\* C16: every record of the array of an invocation was created by the
\* 'message' handler of the fetch of that invocation, at every moment and so
\* in the list it resolves with.
RecordsPrivate ==
    \A c \in Calls : \A i \in 1..Len(emails[c]) :
        /\ emails[c][i][1] = c
        /\ msg[c][emails[c][i][2]].ended

\* C16 witness: both invocations overlapped and each has resolved with a
\* record of its own.
RecordsPrivateWitness ==
    /\ \A c \in Calls : settled[c] = "resolved" /\ Len(emails[c]) = 1
    /\ connects = 2
    /\ endCalls = 2

\* C17: the list the page renders after its own sort is the list the server
\* answered with, record for record: sorting the list the server has
\* already sorted moves no record.
SecondSortKeepsOrder ==
    client.source = "api" => client.shown = response.records

\* C17 witness: three records, two of them with the same date, were sorted
\* by the server and sorted again and rendered by the page.
SecondSortKeepsOrderWitness ==
    /\ client.source = "api"
    /\ Len(client.shown) = 3
    /\ client.shown[1].date = "2024-01-02"
    /\ client.shown[2].date = "2024-01-01"
    /\ client.shown[3].date = "2024-01-01"
    /\ client.shown[2].id = 3
    /\ client.shown[3].id = 1

\* C18: the handler answers only after the promise has settled, with status
\* 200 and the array (empty for an empty mailbox) when it resolved and with
\* status 500 and the error 'Failed to fetch emails' when it was rejected by
\* whichever failure; nothing is sent before, and once the answer is sent it
\* is never sent again or changed.
AnswersOnce ==
    [][/\ (http = "awaiting" /\ http' = "responded") =>
              /\ Settled
              /\ settled = "resolved" =>
                     response' = [status |-> 200, records |-> Records(email, emails),
                                  error |-> ""]
              /\ (settled = "resolved" /\ box = "empty") => response'.records = <<>>
              /\ settled = "rejected" =>
                     response' = [status |-> 500, records |-> <<>>,
                                  error |-> "Failed to fetch emails"]
       /\ http # "responded" => response = NoResponse
       /\ http = "responded" => (http' = "responded" /\ response' = response)]_vars

\* C18 witness: openBox failed and the handler has answered with status 500.
AnswersOnceWitness ==
    /\ http = "responded"
    /\ box = "failed"
    /\ errorL
    /\ response.status = 500
    /\ response.error = "Failed to fetch emails"

\* C19: imap.connect() is called once, with the ready and error listeners
\* registered; openBox is called only by the 'ready' event of the connecting
\* session; the fetch command is issued only by the openBox callback that
\* reports total > 0, for the range max(1, total - WINDOW + 1)..total, and
\* afterwards neither a second fetch is issued nor the range or total changed.
StepOrdering ==
    [][/\ connects' # connects =>
              (connects = 0 /\ connects' = 1 /\ readyL' /\ errorL' /\ box = "none")
       /\ (box = "none" /\ box' # "none") =>
              /\ box' = "opening"
              /\ connects = 1
              /\ conn = "connecting" /\ readyL
              /\ conn' = "authenticated"
       /\ (fetch = "none" /\ fetch' # "none") =>
              /\ fetch' = "issued"
              /\ box = "opening" /\ box' = "opened"
              /\ total' > 0
              /\ range' = <<Max(1, total' - WINDOW + 1), total'>>
       /\ fetch # "none" =>
              /\ box = "opened" /\ box' = "opened"
              /\ fetch' # "none"
              /\ ~(fetch = "ended" /\ fetch' = "issued")
              /\ range' = range
              /\ total' = total]_vars

\* C19 witness: connect, ready, openBox with two messages, the fetch of 1:2
\* issued and ended.
StepOrderingWitness ==
    /\ connects = 1
    /\ box = "opened"
    /\ total = 2
    /\ range = <<1, 2>>
    /\ fetch = "ended"
    /\ settled = "resolved"

\* C20: once openBox has called back with an error, the invocation is
\* rejected, no fetch command was issued, no message handled and no record
\* collected, and imap.end() has been called.
OpenFailureReleases ==
    box = "failed" =>
        /\ settled = "rejected"
        /\ fetch = "none"
        /\ range = <<>>
        /\ \A s \in Seqnos : msg[s].st = "none"
        /\ emails = <<>>
        /\ endCalls >= 1

\* C21: no imap.end() is called while the fetch is running; the step of the
\* fetch 'end' event leaves the array sorted (the sort applied to what was
\* collected), calls imap.end() exactly once, and resolves a pending
\* invocation, whose list is that sorted array; no imap.end() follows.
SortCloseResolve ==
    [][/\ fetch = "issued" => endCalls = 0
       /\ (fetch = "issued" /\ fetch' = "ended") =>
              /\ emails' = SortEmails(email, emails)
              /\ endCalls' = 1
              /\ conn' = "closed"
              /\ settled = "pending" => settled' = "resolved"
       /\ fetch = "ended" => (endCalls = 1 /\ endCalls' = 1)]_vars

\* C21 witness: two messages arrived oldest first, no error came, and the
\* invocation has resolved with the newest first after one imap.end().
SortCloseResolveWitness ==
    /\ fetch = "ended"
    /\ settled = "resolved"
    /\ errorL /\ fetchErrL
    /\ endCalls = 1
    /\ emails = <<2, 1>>
    /\ email[1].date = "2024-01-01"
    /\ email[2].date = "2024-01-02"
    /\ msg[2].ended

\* The lines of the first n chunks of a header-fields stream, in order.
RECURSIVE LinesOf(_, _)
LinesOf(src, n) == IF n = 0 THEN <<>> ELSE LinesOf(src, n - 1) \o src[n]

\* C22: at every moment the buffer of a stream holds exactly the chunks
\* delivered on that stream so far, as strings, in the order of delivery,
\* whatever was delivered on the other stream of the message and on the
\* streams of other messages; when the stream has ended, the body is that
\* concatenation and from, subject and date are parsed from it.
ReassemblyInOrder ==
    \A s \in Seqnos : \A w \in Which :
        LET st == stream[s][w] IN
        st.st # "none" =>
            /\ w = TEXT => st.buffer = [i \in 1..st.sent |-> ChunkToString(st.src[i])]
            /\ w = HEADER => st.buffer = LinesOf(st.src, st.sent)
            /\ st.st = "ended" =>
                   /\ st.sent = Len(st.src)
                   /\ w = TEXT => ("body" \in email[s].has /\ email[s].body = st.buffer)
                   /\ w = HEADER =>
                          \A n \in {"from", "subject", "date"} :
                              email[s][n] = FirstOrEmpty(LinesOf(st.src, Len(st.src)), n)

\* C22 witness: both streams of message 1 have ended, each after two chunks,
\* while the TEXT stream of message 2 is between its two chunks.
ReassemblyInOrderWitness ==
    /\ stream[1][TEXT].st = "ended"
    /\ stream[1][HEADER].st = "ended"
    /\ email[1].body = <<"caf<?>", "<?>s">>
    /\ email[1].date = "2024-01-02"
    /\ stream[2][TEXT].st = "open"
    /\ stream[2][TEXT].sent = 1
    /\ stream[2][TEXT].buffer = <<"Hel">>

\* C23: once the 'end' event of a message has pushed its record to the
\* array, no step assigns an attribute of that record.
RecordImmutable ==
    [][\A s \in Seqnos : msg[s].ended => email'[s] = email[s]]_vars

\* C24: an invocation calls imap.connect() once, when it starts; and once
\* it has been rejected, no openBox and no fetch command is issued for it
\* any more, here while a later invocation is waiting for its session to
\* become ready.
NoRetryAfterFailure ==
    [][/\ connects' # connects =>
              /\ connects' = connects + 1
              /\ \E c \in Calls : settled[c] = "none" /\ settled'[c] = "pending"
       /\ \A c \in Calls :
              (/\ settled[c] = "rejected"
               /\ \E d \in Calls \ {c} : settled[d] = "pending" /\ d \in readyL)
              => (box'[c] = box[c] /\ fetch'[c] = fetch[c])]_vars

\* C25: when the request of the page failed (an answer that is not ok, a
\* network failure, an answer that cannot be parsed) mockInbox is rendered;
\* when it succeeded, the records of the answer are rendered, all of them,
\* no record with a valid date before one with a newer valid date.
ClientFallback ==
    /\ client.got \in {"notok", "failed"} =>
           (client.source = "mock" /\ client.shown = MockInbox)
    /\ client.got = "ok" =>
           /\ client.source = "api"
           /\ Len(client.shown) = Len(response.records)
           /\ \A i \in 1..Len(response.records) :
                  \E j \in 1..Len(client.shown) : client.shown[j] = response.records[i]
           /\ \A i, j \in 1..Len(client.shown) :
                  (i < j /\ Valid(client.shown[i]) /\ Valid(client.shown[j])) =>
                      DateOf(client.shown[i]).v >= DateOf(client.shown[j]).v

\* C26: in a sequence of invocations (one in flight at a time), the 'ready'
\* event of the session runs the ready handler of the invocation in flight
\* and of no other: openBox is called for that invocation only.
OnlyCurrentReadyHandler ==
    [][\A d \in Calls :
          (/\ conn = "connecting" /\ conn' = "authenticated"
           /\ { c \in Calls : settled[c] = "pending" } = {d})
          => { c \in Calls : box[c] = "none" /\ box'[c] = "opening" } = {d}]_vars

\* C27: no listener of a settled invocation is registered on imap, and
\* neither the 'ready' nor the 'error' listeners on imap outnumber the
\* invocations in flight.
NoListenerLeft ==
    LET inFlight == { c \in Calls : settled[c] = "pending" } IN
    /\ \A c \in Calls :
           settled[c] \in {"resolved", "rejected"} => (c \notin readyL /\ c \notin errorL)
    /\ Cardinality(readyL) <= Cardinality(inFlight)
    /\ Cardinality(errorL) <= Cardinality(inFlight)

\* C28: once the invocation has resolved, no step changes the array it
\* resolved with: neither its length, nor its order, nor a record in it.
ResolvedListFinal ==
    [][settled = "resolved" =>
          /\ emails' = emails
          /\ \A i \in 1..Len(emails) : email'[emails[i]] = email[emails[i]]]_vars

====
